---- MODULE Spec2Model ----
(***************************************************************************)
(* Model of src/antirizz.js (capture_nationsmap.js): a Playwright script   *)
(* that pans a map canvas, detects the content edges by comparing the MD5  *)
(* of successive captures, raster-scans the grid and stitches the tiles.   *)
(*                                                                         *)
(* The script is one async flow; every action below is one awaited call    *)
(* (a drag, a capture attempt, a retry delay) or the synchronous code      *)
(* between two awaited renderer calls.  The renderer (the page's canvas)   *)
(* is the environment: a viewport over content larger than itself.         *)
(***************************************************************************)
EXTENDS Integers, Sequences, FiniteSets, TLC

VARIABLES
    pc,             \* position of the async flow
    world,          \* the renderer and its content: [maxX, maxY, restless, flaky]
    start,          \* viewport offset when the page has loaded, <<x, y>>
    pos,            \* current viewport offset, <<x, y>> in pixels
    gen,            \* number of re-renders caused by drags in a restless direction
    faults,         \* renderer calls that have failed so far
    attempt,        \* captureCanvasBuffer: loop variable
    capWait,        \* captureCanvasBuffer: inside the catch block's 300 ms wait
    capLog,         \* the attempts' outcomes and the delays of the current/last capture call
    buf,            \* buffer returned by the last successful capture
    initialHash,    \* md5 of the initial capture
    dir,            \* findEdgeHoriz / findEdgeVert: direction argument
    i,              \* loop variable of the scan, re-home and corrective loops
    identicalCount, \* scan: run length of identical captures
    lastHash,       \* scan: fingerprint compared against
    horizMeta,      \* result of the horizontal scan
    vertMeta,       \* result of the vertical scan
    hErr,           \* `e` caught by the horizontal try/catch
    vErr,           \* `e` caught by the vertical try/catch
    fatalErr,       \* `err` of the top-level .catch
    r,              \* sweep: row loop variable
    c,              \* sweep: column loop variable
    rowFiles,       \* sweep: file paths of the current row
    saved,          \* sweep: rows of file paths
    files,          \* captures/ directory: tile files, <<r, c>> -> buffer
    scanSaved,      \* captures/ directory: number of files h_<dir>_<k> / v_<dir>_<k>
    canvas,         \* node-canvas: the drawImage calls made, in order
    output,         \* the stitched PNG written to output/
    panSum,         \* per phase, the sum of the drag deltas issued
    scanLog,        \* per axis, of the scan in progress or last run: the drags it
                    \* issued and the last fingerprints it compared (newest last)
    \* src/sigma.js
    now,                \* Date.now(), in milliseconds since the watcher started
    rawCache,           \* url -> [v |-> {url, json, capturedAt}, t |-> time to live until]
    processedCache,     \* url -> [v |-> extracted players, t |-> time to live until]
    processingInterval, \* the background worker has been started
    outputDir,          \* processed_dynmap/: file name -> content
    saves,              \* the saveFinal calls made, in order
    expired,            \* the values of the "expired" events rawCache has emitted
    responses,          \* responses received
    cachedValues,       \* the values rawCache.set has been called with, in order
    advances,           \* steps the clock has made
    \* src/.github/workflows/scraper.js
    entries,            \* the parsed entries
    next,               \* dedupe loop: index of the next entry
    byTown,             \* the Map of the dedupe loop
    final,              \* the list written to towns.json
    written             \* towns.json has been written

vars == <<pc, world, start, pos, gen, faults, attempt, capWait, capLog, buf,
          initialHash, dir, i, identicalCount, lastHash, horizMeta, vertMeta,
          hErr, vErr, fatalErr, r, c, rowFiles, saved, files, scanSaved,
          canvas, output, panSum, scanLog>>

----------------------------------------------------------------------------
(* Bounds of the model *)

\* content extends at most this many pan steps beyond the viewport, per axis
MaxSpanX == 2
MaxSpanY == 1
\* renderer calls (captures, drags) that may fail in one run
MaxFaults == 3

----------------------------------------------------------------------------
(* Configuration, src/antirizz.js:30-36 *)

VIEWPORT == [width |-> 1280, height |-> 800]
\* STEP_FRACTION = 0.75, kept as the exact ratio 3/4
STEP_FRACTION == [num |-> 3, den |-> 4]
MAX_IDENTICAL_TO_EDGE == 3
RETRY_ATTEMPTS == 3
\* the "safety cap" of both scan loops
ScanIterationCap == 2000
\* repetitions of each of the four corrective loops
CorrectiveReps == 3

\* Math.round(n * STEP_FRACTION): round half up
RoundFraction(n) ==
    (2 * n * STEP_FRACTION.num + STEP_FRACTION.den) \div (2 * STEP_FRACTION.den)

stepX == RoundFraction(VIEWPORT.width)
stepY == RoundFraction(VIEWPORT.height)

----------------------------------------------------------------------------
(* Values *)

NoFrame == [x |-> -1, y |-> -1, gen |-> -1]
NoHash == [digest |-> NoFrame]
NoMeta == [steps |-> -1, lastHash |-> NoHash]
NoOutput == [width |-> -1, height |-> -1, draws |-> <<>>]

\* md5(buf): deterministic and collision free on the frames of a run
md5(b) == [digest |-> b]

\* canvas.toDataURL("image/png") of the frame the canvas shows
toDataURL(frame) == [mime |-> "image/png", base64 |-> frame]

\* dataURLToBuffer: the base64 payload after the "data:...;base64," prefix
dataURLToBuffer(dataUrl) == dataUrl.base64

Min(a, b) == IF a < b THEN a ELSE b
Max(a, b) == IF a > b THEN a ELSE b

----------------------------------------------------------------------------
(* The renderer: a viewport that applies every drag exactly and clamps at  *)
(* the content borders.  Dragging the canvas by (dx, dy) moves the view by *)
(* (-dx, -dy) ("drag left -> pan right").  In a restless direction a drag  *)
(* does not move the view but makes the canvas render a frame it has not   *)
(* shown before.                                                           *)

Rendered == [x |-> pos[1], y |-> pos[2], gen |-> gen]

ViewDirection(dx, dy) ==
    IF dx < 0 THEN "right" ELSE IF dx > 0 THEN "left"
    ELSE IF dy < 0 THEN "down" ELSE IF dy > 0 THEN "up" ELSE "none"

Clamp(v, hi) == Max(0, Min(hi, v))

PanView(p, dx, dy) ==
    IF ViewDirection(dx, dy) \in world.restless THEN p
    ELSE <<Clamp(p[1] - dx, world.maxX), Clamp(p[2] - dy, world.maxY)>>

PanGen(g, dx, dy) ==
    IF ViewDirection(dx, dy) \in world.restless THEN g + 1 ELSE g

\* a call to a flaky renderer may fail; at most MaxFaults calls fail in a run
CanFail == world.flaky /\ faults < MaxFaults

----------------------------------------------------------------------------
(* Positions of the flow *)

CapturePcs == {"initial", "h_capture", "v_capture", "s_capture"}
HScanPcs == {"h_pan", "h_capture", "h_save"}
VScanPcs == {"v_pan", "v_capture", "v_save"}
CorrectivePcs == {"corr_1", "corr_2", "corr_3", "corr_4"}
PanPcs == {"h_pan", "v_pan", "rehome_v", "rehome_h", "s_pan", "s_return", "s_down"}
              \cup CorrectivePcs

Phase(p) ==
    IF p \in HScanPcs \cup VScanPcs THEN "scan"
    ELSE IF p \in {"rehome_v", "rehome_h"} THEN "rehome"
    ELSE IF p \in CorrectivePcs THEN "corrective"
    ELSE "sweep"

Phases == {"scan", "rehome", "corrective", "sweep"}

----------------------------------------------------------------------------
(* Initial state: the page has loaded and the canvas was found (line 60) *)

SpansX == {k * stepX : k \in 0..MaxSpanX}
SpansY == {k * stepY : k \in 0..MaxSpanY}

\* Content that clamps at its borders in every direction; content that is
\* restless along one axis (and fits the viewport along the other); and a
\* renderer whose calls may fail (over content that clamps and fits the
\* viewport vertically).
BoundedWorlds == [maxX : SpansX, maxY : SpansY, restless : {{}}, flaky : {FALSE}]
RestlessWorlds ==
    [maxX : SpansX, maxY : {0}, restless : {{"right"}, {"right", "left"}}, flaky : {FALSE}]
        \cup [maxX : {0}, maxY : SpansY, restless : {{"down"}, {"down", "up"}},
              flaky : {FALSE}]
FlakyWorlds == [maxX : SpansX, maxY : {0}, restless : {{}}, flaky : {TRUE}]

Worlds == BoundedWorlds \cup RestlessWorlds \cup FlakyWorlds

\* the capture script before its first renderer call
ScriptStart ==
    /\ pos = start
    /\ gen = 0
    /\ faults = 0
    /\ pc = "initial"
    /\ attempt = 1 /\ capWait = FALSE /\ capLog = <<>>
    /\ buf = NoFrame
    /\ initialHash = NoHash
    /\ dir = "none" /\ i = 0 /\ identicalCount = 0 /\ lastHash = NoHash
    /\ horizMeta = NoMeta /\ vertMeta = NoMeta
    /\ hErr = "none" /\ vErr = "none" /\ fatalErr = "none"
    /\ r = 0 /\ c = 0 /\ rowFiles = <<>> /\ saved = <<>>
    /\ files = <<>>
    /\ scanSaved = [n \in {"h_right", "h_left", "v_down", "v_up"} |-> 0]
    /\ canvas = <<>>
    /\ output = NoOutput
    /\ panSum = [p \in Phases |-> <<0, 0>>]
    /\ scanLog = [axis \in {"h", "v"} |-> [hashes |-> <<>>, pans |-> 0]]

\* the watcher of src/sigma.js before its first response
WatcherStart ==
    /\ now = 0
    /\ rawCache = <<>>
    /\ processedCache = <<>>
    /\ processingInterval = FALSE
    /\ outputDir = <<>>
    /\ saves = <<>>
    /\ expired = <<>>
    /\ responses = 0
    /\ cachedValues = <<>>
    /\ advances = 0

\* the scraper of src/.github/workflows/scraper.js has not run
ScraperIdle ==
    /\ entries = <<>>
    /\ next = 1
    /\ byTown = <<>>
    /\ final = <<>>
    /\ written = FALSE

Init ==
    /\ world \in Worlds
    /\ start \in {p \in SpansX \X SpansY : p[1] <= world.maxX /\ p[2] <= world.maxY}
    /\ ScriptStart
    /\ WatcherStart
    /\ ScraperIdle

rendererVars == <<pos, gen>>
captureVars == <<attempt, capWait, capLog>>
scanVars == <<dir, i, identicalCount, lastHash, scanLog>>
metaVars == <<horizMeta, vertMeta>>
errVars == <<hErr, vErr, fatalErr>>
sweepVars == <<r, c, rowFiles, saved>>
storeVars == <<files, scanSaved>>
stitchVars == <<canvas, output>>
envVars == <<world, start>>
scraperVars == <<entries, next, byTown, final, written>>
watcherVars == <<now, rawCache, processedCache, processingInterval, outputDir, saves,
                 expired, responses, cachedValues, advances>>

----------------------------------------------------------------------------
(* Control transfer *)

AxisOf(direction) == IF direction \in {"right", "left"} THEN "h" ELSE "v"

\* a scan starts: no drag issued yet, the baseline is the fingerprint to compare
NewScanLog(baseline) == [hashes |-> <<baseline>>, pans |-> 0]

\* the scan compared fingerprint h: keep the last MAX_IDENTICAL_TO_EDGE + 1
Compared(log, h) ==
    LET all == Append(log.hashes, h)
        from == Max(1, Len(all) - MAX_IDENTICAL_TO_EDGE)
    IN  [log EXCEPT !.hashes = SubSeq(all, from, Len(all))]

\* the first statements of findEdgeHoriz / findEdgeVert (lines 129-133, 171-175)
StartScan(direction) ==
    /\ dir' = direction
    /\ identicalCount' = 0
    /\ lastHash' = initialHash'
    /\ i' = 0
    /\ scanLog' = [scanLog EXCEPT ![AxisOf(direction)] = NewScanLog(initialHash')]

\* (mutant) findEdgeHoriz("right") is called outside any try block
InHorizTry_Never(p, direction) == FALSE

\* does the try block at lines 161-163 / 199-201 enclose position p?
InHorizTry(p, direction) == p \in HScanPcs /\ direction = "right"
InVertTry(p, direction) == p \in VScanPcs /\ direction = "down"

\* (mutant) the error is caught where it is raised and the call goes on
Throw_Swallowed(err) == UNCHANGED <<pc, initialHash, errVars, scanVars>>

\* throw err at the current position: the enclosing try/catch of the first
\* scan of an axis starts the opposite scan (lines 163-166, 201-204); any
\* other throw reaches the top-level .catch (lines 323-326).
Throw(err) ==
    /\ UNCHANGED initialHash
    /\ IF InHorizTry(pc, dir)
       THEN /\ hErr' = err
            /\ StartScan("left")
            /\ pc' = "h_pan"
            /\ UNCHANGED <<vErr, fatalErr>>
       ELSE IF InVertTry(pc, dir)
       THEN /\ vErr' = err
            /\ StartScan("up")
            /\ pc' = "v_pan"
            /\ UNCHANGED <<hErr, fatalErr>>
       ELSE /\ fatalErr' = err
            /\ pc' = "fatal"
            /\ UNCHANGED <<hErr, vErr, scanVars>>

----------------------------------------------------------------------------
(* captureCanvasBuffer, lines 63-84 *)

EnterCapture ==
    /\ attempt' = 1
    /\ capWait' = FALSE
    /\ capLog' = <<>>

\* (mutant) the buffer of a vertical scan capture is handed to the
\* horizontal scan loop
AfterCapture_Misrouted(p) ==
    CASE p = "initial" -> "h_pan"
      [] p = "h_capture" -> "h_save"
      [] p = "v_capture" -> "h_save"
      [] p = "s_capture" -> "s_save"

\* where the caller continues with the returned buffer
AfterCapture(p) ==
    CASE p = "initial" -> "h_pan"
      [] p = "h_capture" -> "h_save"
      [] p = "v_capture" -> "v_save"
      [] p = "s_capture" -> "s_save"

\* lines 66-77: the page returns a data URL, which is decoded and returned.
\* After the initial capture (lines 117-119, 162) the right scan starts.
CaptureAttemptOk ==
    /\ pc \in CapturePcs
    /\ ~capWait
    /\ buf' = dataURLToBuffer(toDataURL(Rendered))
    /\ capLog' = Append(capLog, "ok")
    /\ pc' = AfterCapture(pc)
    /\ IF pc = "initial"
       THEN /\ initialHash' = md5(buf')
            /\ StartScan("right")
       ELSE UNCHANGED <<initialHash, scanVars>>
    /\ UNCHANGED <<envVars, watcherVars, scraperVars, rendererVars, faults, attempt, capWait, metaVars,
                   errVars, sweepVars, storeVars, stitchVars, panSum>>

\* lines 76, 78-80: the page returned null or page.evaluate threw
CaptureAttemptFail ==
    /\ pc \in CapturePcs
    /\ ~capWait
    /\ CanFail
    /\ faults' = faults + 1
    /\ capLog' = Append(capLog, "fail")
    /\ capWait' = TRUE
    /\ UNCHANGED <<pc, envVars, watcherVars, scraperVars, rendererVars, attempt, buf, initialHash, scanVars,
                   metaVars, errVars, sweepVars, storeVars, stitchVars, panSum>>

\* (mutant) the loop gives up one attempt early
MoreAttempts_OffByOne(a, retries) == a + 1 < retries

\* the loop condition at line 64 after attempt++
MoreAttempts(a, retries) == a + 1 <= retries

\* line 80 done: next attempt (line 64)
CaptureRetry ==
    /\ pc \in CapturePcs
    /\ capWait
    /\ MoreAttempts(attempt, RETRY_ATTEMPTS)
    /\ attempt' = attempt + 1
    /\ capWait' = FALSE
    /\ capLog' = Append(capLog, "delay")
    /\ UNCHANGED <<pc, envVars, watcherVars, scraperVars, rendererVars, faults, buf, initialHash,
                   scanVars, metaVars, errVars, sweepVars, storeVars, stitchVars,
                   panSum>>

\* line 80 done, loop left: throw at line 83
CaptureGiveUp ==
    /\ pc \in CapturePcs
    /\ capWait
    /\ ~MoreAttempts(attempt, RETRY_ATTEMPTS)
    /\ capWait' = FALSE
    /\ capLog' = Append(capLog, "delay")
    /\ Throw("CaptureError")
    /\ UNCHANGED <<envVars, watcherVars, scraperVars, rendererVars, faults, attempt, buf, metaVars,
                   sweepVars, storeVars, stitchVars, panSum>>

----------------------------------------------------------------------------
(* dragPan, lines 87-113 *)

\* the drag ends at round(start + delta) and the last of the 8 mouse moves
\* lands exactly there: the canvas is dragged by (deltaX, deltaY)
DragPan(deltaX, deltaY) ==
    /\ pos' = PanView(pos, deltaX, deltaY)
    /\ gen' = PanGen(gen, deltaX, deltaY)
    /\ panSum' = [panSum EXCEPT ![Phase(pc)] = <<@[1] + deltaX, @[2] + deltaY>>]

\* is the flow at a dragPan call (and not at the exit of the loop around it)?
PanDue ==
    CASE pc \in {"h_pan", "v_pan"} -> i < ScanIterationCap
      [] pc = "rehome_v" -> i < vertMeta.steps
      [] pc = "rehome_h" -> i < horizMeta.steps
      [] pc \in CorrectivePcs -> i < CorrectiveReps
      [] pc = "s_return" -> c < horizMeta.steps
      [] OTHER -> TRUE

\* page.evaluate / the mouse calls of dragPan throw: nothing is dragged
PanFail ==
    /\ pc \in PanPcs
    /\ PanDue
    /\ CanFail
    /\ faults' = faults + 1
    /\ Throw("PanError")
    /\ UNCHANGED <<envVars, watcherVars, scraperVars, rendererVars, captureVars, buf, metaVars, sweepVars,
                   storeVars, stitchVars, panSum>>

----------------------------------------------------------------------------
(* findEdgeHoriz (lines 127-157) and findEdgeVert (lines 170-196) *)

\* lines 129 and 171: the drag of one scan step
ScanDelta(axis, direction) ==
    IF axis = "h"
    THEN <<stepX * (IF direction = "right" THEN -1 ELSE 1), 0>>
    ELSE <<0, stepY * (IF direction = "down" THEN -1 ELSE 1)>>

\* lines 138-143 and 180-185
NextIdenticalCount(h, last, count) == IF h = last THEN count + 1 ELSE 0
NextLastHash(h, last) == IF h = last THEN last ELSE h

\* (mutant) the edge is declared one identical capture early
EdgeDetected_Early(count) == count >= MAX_IDENTICAL_TO_EDGE - 1

\* (mutant) the edge is declared one identical capture late
EdgeDetected_Late(count) == count > MAX_IDENTICAL_TO_EDGE

\* lines 151 and 190
EdgeDetected(count) == count >= MAX_IDENTICAL_TO_EDGE

\* (mutant) the loop index is returned instead of the number of iterations
ScanResult_OffByOne(k, last) == [steps |-> k, lastHash |-> last]

\* lines 153 and 192
ScanResult(k, last) == [steps |-> k + 1, lastHash |-> last]

\* (mutant) the loop makes one iteration more than the cap
ScanLoopRuns_OffByOne(k) == k <= ScanIterationCap

\* lines 133 and 175
ScanLoopRuns(k) == k < ScanIterationCap

\* lines 146 and 186
ScanFilePrefix(axis, direction) ==
    CASE axis = "h" /\ direction = "right" -> "h_right"
      [] axis = "h" /\ direction = "left" -> "h_left"
      [] axis = "v" /\ direction = "down" -> "v_down"
      [] axis = "v" /\ direction = "up" -> "v_up"

\* (mutant) scan captures are named like the tiles of row 0
ScanFileName_AsTile(prefix, k) == "tile_r0_c" \o ToString(k) \o ".png"

\* lines 146 and 186: `h_${direction}_${i}.png` / `v_${direction}_${i}.png`
ScanFileName(prefix, k) == prefix \o "_" \o ToString(k) \o ".png"

\* lines 134-135 / 176-177
ScanPan(axis) ==
    /\ pc = axis \o "_pan"
    /\ ScanLoopRuns(i)
    /\ DragPan(ScanDelta(axis, dir)[1], ScanDelta(axis, dir)[2])
    /\ scanLog' = [scanLog EXCEPT ![axis].pans = @ + 1]
    /\ pc' = axis \o "_capture"
    /\ EnterCapture
    /\ UNCHANGED <<envVars, watcherVars, scraperVars, faults, buf, initialHash, dir, i, identicalCount,
                   lastHash, metaVars, errVars, sweepVars, storeVars, stitchVars>>

\* lines 156 / 195: the loop ended without a return
ScanCapReached(axis) ==
    /\ pc = axis \o "_pan"
    /\ ~ScanLoopRuns(i)
    /\ Throw("EdgeNotFoundError")
    /\ UNCHANGED <<envVars, watcherVars, scraperVars, rendererVars, faults, captureVars, buf, metaVars,
                   sweepVars, storeVars, stitchVars, panSum>>

\* lines 137-155 / 179-194: fingerprint, compare, save the capture, test for
\* the edge.  The horizontal result starts findEdgeVert("down") (line 200);
\* the vertical result starts the re-homing loops (line 213).
ScanSave(axis) ==
    /\ pc = axis \o "_save"
    /\ LET h == md5(buf)
           count == NextIdenticalCount(h, lastHash, identicalCount)
           last == NextLastHash(h, lastHash)
           name == ScanFilePrefix(axis, dir)
       IN  /\ scanSaved' = [scanSaved EXCEPT ![name] = Max(@, i + 1)]
           /\ IF EdgeDetected(count)
              THEN IF axis = "h"
                   THEN /\ horizMeta' = ScanResult(i, last)
                        /\ UNCHANGED vertMeta
                        /\ dir' = "down"
                        /\ identicalCount' = 0
                        /\ lastHash' = initialHash
                        /\ i' = 0
                        /\ scanLog' = [h |-> Compared(scanLog["h"], h),
                                       v |-> NewScanLog(initialHash)]
                        /\ pc' = "v_pan"
                   ELSE /\ vertMeta' = ScanResult(i, last)
                        /\ UNCHANGED horizMeta
                        /\ identicalCount' = count
                        /\ lastHash' = last
                        /\ UNCHANGED dir
                        /\ i' = 0
                        /\ scanLog' = [scanLog EXCEPT ![axis] = Compared(@, h)]
                        /\ pc' = "rehome_v"
              ELSE /\ identicalCount' = count
                   /\ lastHash' = last
                   /\ i' = i + 1
                   /\ scanLog' = [scanLog EXCEPT ![axis] = Compared(@, h)]
                   /\ pc' = axis \o "_pan"
                   /\ UNCHANGED <<dir, metaVars>>
    /\ UNCHANGED <<envVars, watcherVars, scraperVars, rendererVars, faults, captureVars, buf, initialHash,
                   errVars, sweepVars, files, stitchVars, panSum>>

----------------------------------------------------------------------------
(* Re-homing, lines 211-222, and the corrective cycles, lines 242-247 *)

\* line 212: the direction factor is 1 whatever the scan result holds
revV == -stepY * 1
\* line 218
revH == -stepX * 1

\* lines 213-216: dragPan(-0, -revV), vertMeta.steps times
RehomeVertical ==
    /\ pc = "rehome_v"
    /\ IF i < vertMeta.steps
       THEN /\ DragPan(0, -revV)
            /\ i' = i + 1
            /\ UNCHANGED pc
       ELSE /\ i' = 0
            /\ pc' = "rehome_h"
            /\ UNCHANGED <<rendererVars, panSum>>
    /\ UNCHANGED <<envVars, watcherVars, scraperVars, faults, captureVars, buf, initialHash, dir,
                   identicalCount, lastHash, scanLog, metaVars, errVars, sweepVars,
                   storeVars, stitchVars>>

\* lines 219-222: dragPan(-revH, 0), horizMeta.steps times
RehomeHorizontal ==
    /\ pc = "rehome_h"
    /\ IF i < horizMeta.steps
       THEN /\ DragPan(-revH, 0)
            /\ i' = i + 1
            /\ UNCHANGED pc
       ELSE /\ i' = 0
            /\ pc' = "corr_1"
            /\ UNCHANGED <<rendererVars, panSum>>
    /\ UNCHANGED <<envVars, watcherVars, scraperVars, faults, captureVars, buf, initialHash, dir,
                   identicalCount, lastHash, scanLog, metaVars, errVars, sweepVars,
                   storeVars, stitchVars>>

\* (mutant) the grid has as many columns / rows as the scan made steps
GridDimension_NoPlusOne(steps) == steps

\* lines 228-229: the viewport where the scan started and one per step
GridDimension(steps) == steps + 1

\* lines 228-229
cols == GridDimension(horizMeta.steps)
rows == GridDimension(vertMeta.steps)

\* the drag of each of the four loops at lines 243, 244, 246, 247
CorrectiveDelta(p) ==
    CASE p = "corr_1" -> <<stepX, 0>>
      [] p = "corr_2" -> <<0, stepY>>
      [] p = "corr_3" -> <<-stepX, 0>>
      [] p = "corr_4" -> <<0, -stepY>>

AfterCorrective(p) ==
    CASE p = "corr_1" -> "corr_2"
      [] p = "corr_2" -> "corr_3"
      [] p = "corr_3" -> "corr_4"
      [] p = "corr_4" -> "s_capture"

\* lines 243-247; after the last loop the sweep starts (lines 250-255)
Corrective ==
    /\ pc \in CorrectivePcs
    /\ IF i < CorrectiveReps
       THEN /\ DragPan(CorrectiveDelta(pc)[1], CorrectiveDelta(pc)[2])
            /\ i' = i + 1
            /\ UNCHANGED <<pc, captureVars, sweepVars>>
       ELSE /\ i' = 0
            /\ pc' = AfterCorrective(pc)
            /\ UNCHANGED <<rendererVars, panSum>>
            /\ IF pc = "corr_4"
               THEN /\ r' = 0 /\ c' = 0 /\ rowFiles' = <<>> /\ saved' = <<>>
                    /\ EnterCapture
               ELSE UNCHANGED <<captureVars, sweepVars>>
    /\ UNCHANGED <<envVars, watcherVars, scraperVars, faults, buf, initialHash, dir, identicalCount, lastHash,
                   scanLog, metaVars, errVars, storeVars, stitchVars>>

----------------------------------------------------------------------------
(* The structured raster scan, lines 250-282 *)

\* (mutant) row and column are swapped in the file name
TilePath_Swapped(row, col) == <<col, row>>

\* line 256-257: tile_r<r>_c<c>.png in captures/
TilePath(row, col) == <<row, col>>

\* (mutant) the write is not carried out
WriteFile_Dropped(dirFiles, path, data) == dirFiles

\* line 256: the file name of the tile at `path`, `tile_r${r}_c${c}.png`
TileFileName(path) ==
    "tile_r" \o ToString(path[1]) \o "_c" \o ToString(path[2]) \o ".png"

\* fs.writeFile: creates or overwrites
WriteFile(dirFiles, path, data) ==
    [k \in DOMAIN dirFiles \cup {path} |-> IF k = path THEN data ELSE dirFiles[k]]

\* (mutant) the last column, too, is followed by a drag
NotLastColumn_OffByOne(col, ncols) == col < ncols

\* line 263, and the loop condition at line 272
NotLastColumn(col, ncols) == col < ncols - 1
\* line 278
NotLastRow(row, nrows) == row < nrows - 1
\* (mutant) the column loop stops one column early
ColumnLoopRuns_Short(col, ncols) == col < ncols - 1

\* the loop conditions at lines 253 and 251
ColumnLoopRuns(col, ncols) == col < ncols
RowLoopRuns(row, nrows) == row < nrows

\* the c++ and the loop condition of line 253: the next column, or the row
\* is complete, is pushed (line 269) and the return loop starts (line 272)
AdvanceColumn ==
    IF ColumnLoopRuns(c + 1, cols)
    THEN /\ c' = c + 1
         /\ pc' = "s_capture"
         /\ EnterCapture
         /\ UNCHANGED saved
    ELSE /\ saved' = Append(saved, rowFiles')
         /\ c' = 0
         /\ pc' = "s_return"
         /\ UNCHANGED captureVars

\* the r++ and the loop condition of line 251: the next row (lines 252-253),
\* or the end of the raster scan
AdvanceRow ==
    IF RowLoopRuns(r + 1, rows)
    THEN /\ r' = r + 1
         /\ c' = 0
         /\ rowFiles' = <<>>
         /\ pc' = "s_capture"
         /\ EnterCapture
    ELSE /\ r' = r + 1
         /\ pc' = "close"
         /\ UNCHANGED <<c, rowFiles, captureVars>>

\* lines 256-263: save the tile, then drag to the next column unless this
\* is the last one
SweepSave ==
    /\ pc = "s_save"
    /\ files' = WriteFile(files, TilePath(r, c), buf)
    /\ rowFiles' = Append(rowFiles, TilePath(r, c))
    /\ IF NotLastColumn(c, cols)
       THEN /\ pc' = "s_pan"
            /\ UNCHANGED <<c, saved, captureVars>>
       ELSE AdvanceColumn
    /\ UNCHANGED <<envVars, watcherVars, scraperVars, rendererVars, faults, buf, initialHash,
                   scanVars, metaVars, errVars, r, scanSaved, stitchVars, panSum>>

\* lines 264-265
SweepPan ==
    /\ pc = "s_pan"
    /\ DragPan(-stepX, 0)
    /\ UNCHANGED rowFiles
    /\ AdvanceColumn
    /\ UNCHANGED <<envVars, watcherVars, scraperVars, faults, buf, initialHash, scanVars, metaVars, errVars,
                   r, storeVars, stitchVars>>

\* lines 272-278: drag back to the first column, then on to the next row
\* unless this is the last one
SweepReturn ==
    /\ pc = "s_return"
    /\ IF NotLastColumn(c, cols)
       THEN /\ DragPan(stepX, 0)
            /\ c' = c + 1
            /\ UNCHANGED <<pc, r, rowFiles, captureVars>>
       ELSE /\ UNCHANGED <<rendererVars, panSum>>
            /\ IF NotLastRow(r, rows)
               THEN /\ pc' = "s_down"
                    /\ UNCHANGED <<r, c, rowFiles, captureVars>>
               ELSE AdvanceRow
    /\ UNCHANGED <<envVars, watcherVars, scraperVars, faults, buf, initialHash, scanVars,
                   metaVars, errVars, saved, storeVars, stitchVars>>

\* lines 279-280
SweepDown ==
    /\ pc = "s_down"
    /\ DragPan(0, -stepY)
    /\ AdvanceRow
    /\ UNCHANGED <<envVars, watcherVars, scraperVars, faults, buf, initialHash, scanVars, metaVars, errVars,
                   saved, storeVars, stitchVars>>

\* line 285
CloseBrowser ==
    /\ pc = "close"
    /\ pc' = "stitch"
    /\ UNCHANGED <<envVars, watcherVars, scraperVars, rendererVars, faults, captureVars, buf, initialHash,
                   scanVars, metaVars, errVars, sweepVars, storeVars, stitchVars,
                   panSum>>

----------------------------------------------------------------------------
(* Stitching, lines 289-321 *)

\* captures/ is an ordinary directory: a tile file may be gone by the time
\* the stitcher looks for it (one deletion is modelled)
TileLost ==
    /\ pc = "stitch"
    /\ \A row \in 0..(rows - 1), col \in 0..(cols - 1) : TilePath(row, col) \in DOMAIN files
    /\ \E path \in DOMAIN files :
           files' = [k \in DOMAIN files \ {path} |-> files[k]]
    /\ UNCHANGED <<pc, envVars, watcherVars, scraperVars, rendererVars, faults, captureVars, buf, initialHash,
                   scanVars, metaVars, errVars, sweepVars, scanSaved, stitchVars,
                   panSum>>

tileW == VIEWPORT.width
tileH == VIEWPORT.height
effectiveStepX == RoundFraction(VIEWPORT.width)
effectiveStepY == RoundFraction(VIEWPORT.height)

\* (mutant) the overlap of neighbouring tiles is ignored
StitchedWidth_NoOverlap(ncols) == ncols * tileW

\* lines 296-297, as functions of the grid dimensions
StitchedWidth(ncols) == (ncols - 1) * effectiveStepX + tileW
StitchedHeight(nrows) == (nrows - 1) * effectiveStepY + tileH

\* lines 296-297
stitchedWidth == StitchedWidth(cols)
stitchedHeight == StitchedHeight(rows)

\* line 307: fs.existsSync
ExistsSync(dirFiles, path) == path \in DOMAIN dirFiles

\* lines 308-311: ctx.drawImage(img, dx, dy, tileW, tileH) for saved[row][col]
DrawImage(dirFiles, path, row, col) ==
    [img |-> dirFiles[path], dx |-> col * effectiveStepX, dy |-> row * effectiveStepY,
     w |-> tileW, h |-> tileH]

\* (mutant) the tiles of a row are drawn from the last column to the first
RECURSIVE StitchRow_Reversed(_, _, _, _)
StitchRow_Reversed(dirFiles, rowPaths, row, col) ==
    IF col >= Len(rowPaths) THEN <<>>
    ELSE StitchRow_Reversed(dirFiles, rowPaths, row, col + 1)
         \o (IF ExistsSync(dirFiles, rowPaths[col + 1])
             THEN <<DrawImage(dirFiles, rowPaths[col + 1], row, col)>>
             ELSE <<>>)

\* lines 305-312 for one row of `saved`, from 0-based column `col` on
RECURSIVE StitchRow(_, _, _, _)
StitchRow(dirFiles, rowPaths, row, col) ==
    IF col >= Len(rowPaths) THEN <<>>
    ELSE (IF ExistsSync(dirFiles, rowPaths[col + 1])
          THEN <<DrawImage(dirFiles, rowPaths[col + 1], row, col)>>
          ELSE <<>>)
         \o StitchRow(dirFiles, rowPaths, row, col + 1)

\* lines 304-313, from 0-based row `row` on
RECURSIVE StitchRows(_, _, _)
StitchRows(dirFiles, savedRows, row) ==
    IF row >= Len(savedRows) THEN <<>>
    ELSE StitchRow(dirFiles, savedRows[row + 1], row, 0)
         \o StitchRows(dirFiles, savedRows, row + 1)

\* an untouched pixel of the canvas
Blank == [img |-> NoFrame, x |-> -1, y |-> -1]

\* canvas.toBuffer (line 316): the pixel of the composite at (px, py) is the
\* pixel of the image that the last drawImage call covering it has put there
PixelAt(draws, px, py) ==
    LET covering == {k \in 1..Len(draws) :
                        /\ draws[k].dx <= px /\ px < draws[k].dx + draws[k].w
                        /\ draws[k].dy <= py /\ py < draws[k].dy + draws[k].h}
    IN  IF covering = {} THEN Blank
        ELSE LET last == CHOOSE k \in covering : \A j \in covering : j <= k
             IN  [img |-> draws[last].img, x |-> px - draws[last].dx,
                  y |-> py - draws[last].dy]

\* lines 291-321: size the canvas, draw the tiles, write the PNG
Stitch ==
    /\ pc = "stitch"
    /\ canvas' = StitchRows(files, saved, 0)
    /\ output' = [width |-> stitchedWidth, height |-> stitchedHeight, draws |-> canvas']
    /\ pc' = "done"
    /\ UNCHANGED <<envVars, watcherVars, scraperVars, rendererVars, faults, captureVars, buf, initialHash,
                   scanVars, metaVars, errVars, sweepVars, storeVars, panSum>>

----------------------------------------------------------------------------

Next ==
    \/ CaptureAttemptOk
    \/ CaptureAttemptFail
    \/ CaptureRetry
    \/ CaptureGiveUp
    \/ PanFail
    \/ ScanPan("h")
    \/ ScanPan("v")
    \/ ScanCapReached("h")
    \/ ScanCapReached("v")
    \/ ScanSave("h")
    \/ ScanSave("v")
    \/ RehomeVertical
    \/ RehomeHorizontal
    \/ Corrective
    \/ SweepSave
    \/ SweepPan
    \/ SweepReturn
    \/ SweepDown
    \/ CloseBrowser
    \/ TileLost
    \/ Stitch

Spec == Init /\ [][Next]_vars

----------------------------------------------------------------------------
(* src/sigma.js (watch_dynmap_simple.js): a Puppeteer watcher that caches  *)
(* every dynmap_world.json response for 60 s and, when the cache entry     *)
(* expires, writes the players of world "world" to a file.  Time is the    *)
(* clock in milliseconds; the responses, their URLs and bodies come from   *)
(* small sets.                                                             *)

\* responses the page receives in one run, and steps of the clock
MaxResponses == 2
MaxAdvances == 4

WATCH_SUBSTRING == "dynmap_world.json"
\* seconds
RAW_CACHE_TTL == 60
PROCESSED_CACHE_TTL == 60 * 60 * 24 * 3
PROCESS_INTERVAL_MS == 500

\* A URL: its file name and its query, a key and the digits that follow it.
Urls ==
    {[file |-> "dynmap_world.json", key |-> "_", digits |-> 1700000000],
     [file |-> "dynmap_world.json", key |-> "t", digits |-> 1700000000],
     [file |-> "markers.json", key |-> "_", digits |-> 1700000001]}

\* A raw player name: text interleaved with HTML tags, [rank] groups and ~;
\* or a value that is not a string.
Text(s) == [kind |-> "text", text |-> s]
Tag(s) == [kind |-> "tag", text |-> s]
Bracket(s) == [kind |-> "bracket", text |-> s]
Tilde == [kind |-> "tilde", text |-> "~"]
StringName(tokens) == [string |-> TRUE, tokens |-> tokens]
NumberName == [string |-> FALSE, tokens |-> <<>>]

Ann == [name |-> StringName(<<Tag("<b>"), Bracket("Mayor"), Tilde, Text("Ann"), Tag("</b>")>>),
        world |-> "world", x |-> 10, z |-> -4]
Bob == [name |-> StringName(<<Text("Bob")>>), world |-> "world", x |-> 7, z |-> 7]
Cid == [name |-> StringName(<<Text("Cid")>>), world |-> "world_nether", x |-> 0, z |-> 1]
Odd == [name |-> NumberName, world |-> "world", x |-> 1, z |-> 2]

\* response bodies: text that is not JSON, and documents with a players array
Bodies ==
    {[parses |-> FALSE, players |-> <<>>],
     [parses |-> TRUE, players |-> <<Ann, Cid>>],
     [parses |-> TRUE, players |-> <<Bob>>],
     [parses |-> TRUE, players |-> <<Cid, Odd>>]}

\* readableTs, lines 21-24: the local time to the second
readableTs(ts) == ts \div 1000

\* stripHtml, lines 80-84: removes the tags
stripHtml(tokens) == SelectSeq(tokens, LAMBDA t : t.kind # "tag")

RECURSIVE JoinText(_)
JoinText(tokens) ==
    IF tokens = <<>> THEN "" ELSE Head(tokens).text \o JoinText(Tail(tokens))

\* parseName, lines 31-47: the first [ ] group is the rank; all groups and
\* all ~ are removed from the name.  A missing name is "unknown" (line 52).
parseName(rawName) ==
    IF rawName = <<>> THEN [name |-> "unknown", rank |-> <<>>]
    ELSE LET stripped == stripHtml(rawName)
             groups == SelectSeq(stripped, LAMBDA t : t.kind = "bracket")
             rest == SelectSeq(stripped, LAMBDA t : t.kind = "text")
         IN  [name |-> JoinText(rest),
              rank |-> IF groups = <<>> THEN <<>> ELSE <<groups[1].text>>]

\* line 51 / 65
InWorld(p) == p.world = "world"

\* stripHtml calls html.replace: a name that is not a string makes
\* extractPlayers throw
ExtractThrows(json) ==
    \E k \in 1..Len(json.players) : InWorld(json.players[k]) /\ ~json.players[k].name.string

\* extractPlayers, lines 26-78, for a players array
RECURSIVE extractPlayers(_, _)
extractPlayers(players, capturedAt) ==
    IF players = <<>> THEN <<>>
    ELSE LET p == Head(players)
         IN  (IF InWorld(p)
              THEN <<[player |-> parseName(p.name.tokens).name,
                      rank |-> parseName(p.name.tokens).rank,
                      x |-> p.x, z |-> p.z, originalTimestamp |-> capturedAt]>>
              ELSE <<>>)
             \o extractPlayers(Tail(players), capturedAt)

\* NodeCache: an entry lives until the clock has passed its time t
Entry(value, ttlSeconds) == [v |-> value, t |-> now + ttlSeconds * 1000]
Overdue(cache, key) == key \in DOMAIN cache /\ cache[key].t < now
CacheSet(cache, key, entry) ==
    [k \in DOMAIN cache \cup {key} |-> IF k = key THEN entry ELSE cache[k]]
CacheDel(cache, key) == [k \in DOMAIN cache \ {key} |-> cache[k]]
\* get: the value, if the entry is there and not overdue
CacheHas(cache, key) == key \in DOMAIN cache /\ ~Overdue(cache, key)

\* line 144
Watched(url) == url.file = WATCH_SUBSTRING

\* lines 109-110: the digits after "_=", if there are at least 9 of them,
\* else the capture time
Label(url, capturedAt) ==
    IF url.key = "_" /\ url.digits >= 100000000
    THEN [from |-> "url", n |-> url.digits]
    ELSE [from |-> "clock", n |-> capturedAt]

\* lines 86-89
FileName(label, ts) == [label |-> label, ts |-> readableTs(ts)]

\* the capture script has not run
WatchInit ==
    /\ world = [maxX |-> 0, maxY |-> 0, restless |-> {}, flaky |-> FALSE]
    /\ start = <<0, 0>>
    /\ ScriptStart
    /\ WatcherStart
    /\ ScraperIdle

\* page.on("response"), lines 141-171: the body has been read
Response(url, body) ==
    /\ responses < MaxResponses
    /\ responses' = responses + 1
    /\ IF Watched(url) /\ body.parses
       THEN /\ rawCache' = CacheSet(rawCache, url,
                                    Entry([url |-> url, json |-> body, capturedAt |-> now],
                                          RAW_CACHE_TTL))
            /\ cachedValues' = Append(cachedValues, [url |-> url, json |-> body, capturedAt |-> now])
            /\ processingInterval' = TRUE
       ELSE UNCHANGED <<rawCache, cachedValues, processingInterval>>
    /\ UNCHANGED <<now, processedCache, outputDir, saves, expired, advances, vars, scraperVars>>

\* the clock moves on: by one worker interval, by the raw TTL or by the
\* processed TTL.  The worker's get (every 500 ms) and the check timer (1 s)
\* find an entry overdue within one interval of its time, before more time
\* passes.
Advance(ms) ==
    /\ advances < MaxAdvances
    /\ \A url \in DOMAIN rawCache :
           ~Overdue(rawCache, url) /\ now + ms <= rawCache[url].t + PROCESS_INTERVAL_MS
    /\ advances' = advances + 1
    /\ now' = now + ms
    /\ UNCHANGED <<rawCache, processedCache, processingInterval, outputDir, saves,
                   expired, responses, cachedValues, vars, scraperVars>>

\* rawCache.on("expired"), lines 97-116: the check timer or a get of the
\* worker (line 124) finds the entry overdue, deletes it and emits "expired"
Expired(key) ==
    /\ Overdue(rawCache, key)
    /\ rawCache' = CacheDel(rawCache, key)
    /\ expired' = Append(expired, rawCache[key].v)
    /\ LET value == rawCache[key].v
           cached == CacheHas(processedCache, value.url)
       IN  IF ~cached /\ ExtractThrows(value.json)
           THEN \* line 113: nothing is cached, nothing is saved
                /\ processedCache' =
                       IF Overdue(processedCache, value.url)
                       THEN CacheDel(processedCache, value.url) ELSE processedCache
                /\ UNCHANGED <<outputDir, saves>>
           ELSE LET extracted ==
                        IF cached THEN processedCache[value.url].v
                        ELSE extractPlayers(value.json.players, value.capturedAt)
                    name == FileName(Label(value.url, value.capturedAt), value.capturedAt)
                IN  /\ processedCache' =
                           IF cached THEN processedCache
                           ELSE CacheSet(processedCache, value.url,
                                         Entry(extracted, PROCESSED_CACHE_TTL))
                    /\ outputDir' = WriteFile(outputDir, name, extracted)
                    /\ saves' = Append(saves, [name |-> name, data |-> extracted])
    /\ UNCHANGED <<now, processingInterval, responses, cachedValues, advances, vars, scraperVars>>

WatchNext ==
    \/ \E url \in Urls, body \in Bodies : Response(url, body)
    \/ \E ms \in {PROCESS_INTERVAL_MS, RAW_CACHE_TTL * 1000, PROCESSED_CACHE_TTL * 1000} :
           Advance(ms)
    \/ \E key \in Urls : Expired(key)

WatchSpec == WatchInit /\ [][WatchNext]_<<vars, watcherVars>>

\* Time passes, and the timers run: the check timer of rawCache (every
\* second) and the worker's get (every 500 ms) find every overdue entry.
WatchFairSpec ==
    /\ WatchSpec
    /\ WF_<<vars, watcherVars>>(\E ms \in {PROCESS_INTERVAL_MS, RAW_CACHE_TTL * 1000} : Advance(ms))
    /\ \A key \in Urls : WF_<<vars, watcherVars>>(Expired(key))

----------------------------------------------------------------------------
(* src/.github/workflows/scraper.js, lines 229-259: the parsed entries are *)
(* merged by town name and written to towns.json.  The entries, which      *)
(* parseAreaOrMarker has produced (town trimmed and not empty; nation,     *)
(* bank and upkeep a value or null), come from small sets.                 *)

\* parsed entries of one run
MaxEntries == 3

\* a value or null
NullNumber == [isNull |-> TRUE, v |-> 0]
Number(n) == [isNull |-> FALSE, v |-> n]
NullString == [isNull |-> TRUE, v |-> ""]
String(s) == [isNull |-> FALSE, v |-> s]

\* a town name: its letters, each in upper or lower case
Letter(ch, up) == [ch |-> ch, upper |-> up]
TownNames ==
    {<<Letter("a", TRUE), Letter("b", FALSE)>>,
     <<Letter("a", TRUE), Letter("b", TRUE)>>,
     <<Letter("c", TRUE), Letter("d", FALSE)>>}

\* String.prototype.toLowerCase
toLowerCase(name) == [k \in DOMAIN name |-> [name[k] EXCEPT !.upper = FALSE]]

\* what the description of a marker yields for nation, bank and upkeep
Descriptions ==
    {[nation |-> NullString, bank |-> NullNumber, upkeep |-> NullNumber],
     [nation |-> String("Gaul"), bank |-> Number(100), upkeep |-> Number(50)],
     [nation |-> String("Rome"), bank |-> Number(250), upkeep |-> NullNumber],
     [nation |-> NullString, bank |-> Number(0), upkeep |-> Number(40)]}

ParsedEntries ==
    {[town |-> t, nation |-> d.nation, bank |-> d.bank, upkeep |-> d.upkeep] :
        t \in TownNames, d \in Descriptions}

\* JavaScript truthiness of a number / a string or null
TruthyNumber(x) == ~x.isNull /\ x.v # 0
TruthyString(x) == ~x.isNull /\ x.v # ""

\* `x || null`, lines 237
NumberOrNull(x) == IF TruthyNumber(x) THEN x ELSE NullNumber
StringOrNull(x) == IF TruthyString(x) THEN x ELSE NullString

\* computeDays, lines 31-39, on non-negative integers: ceil above 1 day,
\* else round (half up)
computeDays(bank, upkeep) ==
    IF bank.isNull \/ upkeep.isNull THEN NullNumber
    ELSE IF upkeep.v = 0 THEN NullNumber
    ELSE IF bank.v > upkeep.v
         THEN Number((bank.v + upkeep.v - 1) \div upkeep.v)
         ELSE Number((2 * bank.v + upkeep.v) \div (2 * upkeep.v))

\* byTown is a Map: the keys in insertion order with their values
MapHas(map, key) == \E k \in 1..Len(map) : map[k].key = key
MapIndex(map, key) == CHOOSE k \in 1..Len(map) : map[k].key = key

\* lines 239-242: the entry of the town exists: fill what it lacks
Merge(cur, e) ==
    [town |-> cur.town,
     nation |-> IF ~TruthyString(cur.nation) /\ TruthyString(e.nation)
                THEN e.nation ELSE cur.nation,
     bank |-> IF cur.bank.isNull /\ TruthyNumber(e.bank) THEN e.bank ELSE cur.bank,
     upkeep |-> IF cur.upkeep.isNull /\ TruthyNumber(e.upkeep)
                THEN e.upkeep ELSE cur.upkeep]

\* the entries have been parsed (line 229); the other programs have not run
ScrapeInit ==
    /\ world = [maxX |-> 0, maxY |-> 0, restless |-> {}, flaky |-> FALSE]
    /\ start = <<0, 0>>
    /\ ScriptStart
    /\ WatcherStart
    /\ entries \in UNION {[1..n -> ParsedEntries] : n \in 1..MaxEntries}
    /\ next = 1
    /\ byTown = <<>>
    /\ final = <<>>
    /\ written = FALSE

\* lines 233-244: one iteration of the dedupe loop
Dedupe ==
    /\ next <= Len(entries)
    /\ LET e == entries[next]
           townKey == e.town
           lc == toLowerCase(townKey)
       IN  byTown' =
               IF ~MapHas(byTown, lc)
               THEN Append(byTown,
                           [key |-> lc,
                            obj |-> [town |-> townKey, nation |-> StringOrNull(e.nation),
                                     bank |-> NumberOrNull(e.bank),
                                     upkeep |-> NumberOrNull(e.upkeep)]])
               ELSE [byTown EXCEPT ![MapIndex(byTown, lc)].obj = Merge(@, e)]
    /\ next' = next + 1
    /\ UNCHANGED <<entries, final, written, vars, watcherVars>>

\* lines 246-259: the final list, in the order of the map, is written
WriteTowns ==
    /\ next > Len(entries)
    /\ ~written
    /\ final' = [k \in 1..Len(byTown) |->
                    [town |-> byTown[k].obj.town,
                     nation |-> byTown[k].obj.nation,
                     bank |-> byTown[k].obj.bank,
                     upkeep |-> byTown[k].obj.upkeep,
                     days_rounded |-> computeDays(byTown[k].obj.bank, byTown[k].obj.upkeep)]]
    /\ written' = TRUE
    /\ UNCHANGED <<entries, next, byTown, vars, watcherVars>>

ScrapeNext == Dedupe \/ WriteTowns

ScrapeSpec == ScrapeInit /\ [][ScrapeNext]_<<vars, watcherVars, scraperVars>>

----------------------------------------------------------------------------
(* Properties *)

\* the (row, column) slots of the grid
GridSlots == (0..(rows - 1)) \X (0..(cols - 1))

\* the positions of the flow after the re-homing loops
AfterRehomePcs ==
    CorrectivePcs \cup {"s_capture", "s_save", "s_pan", "s_return", "s_down",
                        "close", "stitch", "done"}

\* C1: whenever a grid slot has no tile file at stitch time, no composite is
\* written: a written composite implies that every slot had its tile.
C1_MissingTileFails ==
    output # NoOutput => \A slot \in GridSlots : slot \in DOMAIN files

\* the number of distinct frames a scan captures after the frame its
\* baseline fingerprint was taken from, before the captures repeat
DistinctFramesHoriz ==
    IF hErr = "none" THEN (world.maxX - start[1]) \div stepX
    ELSE IF start[1] > 0 THEN start[1] \div stepX ELSE 1
DistinctFramesVert ==
    IF vErr = "none"
    THEN IF world.maxY > start[2] THEN (world.maxY - start[2]) \div stepY
         ELSE IF pos[1] # start[1] \/ gen # 0 THEN 1 ELSE 0
    ELSE IF start[2] > 0 THEN start[2] \div stepY ELSE 1

\* C2 (as claimed): a scan over N distinct frames followed by a repeating
\* final frame returns steps = N.
C2_StepsEqualDistinct ==
    (hErr = "none" /\ horizMeta # NoMeta) => horizMeta.steps = DistinctFramesHoriz

\* C2 (amended): a scan over N distinct frames followed by a repeating final
\* frame returns steps = N + MAX_IDENTICAL_TO_EDGE: the N iterations that
\* showed a new frame and the 3 that confirmed the edge.
C2_StepsEqualDistinctPlusRun ==
    /\ (hErr \in {"none", "EdgeNotFoundError"} /\ horizMeta # NoMeta)
           => horizMeta.steps = DistinctFramesHoriz + MAX_IDENTICAL_TO_EDGE
    /\ (vErr \in {"none", "EdgeNotFoundError"} /\ pc = "rehome_v" /\ i = 0)
           => vertMeta.steps = DistinctFramesVert + MAX_IDENTICAL_TO_EDGE

C2_Witness ==
    /\ hErr = "none"
    /\ world.maxX - start[1] = 2 * stepX
    /\ horizMeta.steps = 5
    /\ pc = "rehome_v" /\ i = 0 /\ vErr = "none" /\ vertMeta.steps = 4

\* C3: the opposite scan of an axis runs only after the first scan failed,
\* and only when that failure was the iteration cap (EdgeNotFoundError).
C3_FallbackOnlyOnEdgeNotFound ==
    /\ dir = "left" => hErr # "none"
    /\ dir = "up" => vErr # "none"
    /\ hErr \in {"none", "EdgeNotFoundError"}
    /\ vErr \in {"none", "EdgeNotFoundError"}

\* the content of the fallback scenario: to the right the captures never
\* repeat; to the left the border is 2 steps away, so that the 5th drag to
\* the left completes a run of 3 identical captures
C4_Scenario == world.restless = {"right"} /\ start[1] = 2 * stepX

\* C4: when the right scan hits the iteration cap and the left scan reaches
\* the identical run after 5 steps, the horizontal axis resolves with
\* steps = 5 through the fallback and the run is not fatal.
C4_FallbackResolves ==
    C4_Scenario =>
        /\ pc # "fatal"
        /\ dir = "left" => (hErr = "EdgeNotFoundError" /\ i <= 4)
        /\ horizMeta # NoMeta => (horizMeta.steps = 5 /\ hErr = "EdgeNotFoundError")
        /\ pc \notin HScanPcs \cup {"initial"} => horizMeta # NoMeta

C4_Witness ==
    C4_Scenario /\ hErr = "EdgeNotFoundError" /\ horizMeta.steps = 5 /\ pc = "done"

\* C5: once re-homing is over, the drags it issued sum to the negation of
\* the sum of all drags issued during the edge scans.
C5_RehomeReversesScans ==
    pc \in AfterRehomePcs =>
        panSum["rehome"] = <<-panSum["scan"][1], -panSum["scan"][2]>>

\* C6: over content that clamps at its borders, with no failing call, the
\* viewport is at the top-left corner when tile (0, 0) is captured.
C6_SweepStartsAtOrigin ==
    (world.restless = {} /\ faults = 0 /\ pc = "s_capture" /\ r = 0 /\ c = 0)
        => pos = <<0, 0>>

\* C7: when no drag and no capture failed, the finished sweep has stored
\* exactly one tile per grid slot: the directory holds exactly the slots, and
\* the writes, in order, are the slots of each row once each.
C7_SweepComplete ==
    (pc = "close" /\ faults = 0) =>
        /\ DOMAIN files = GridSlots
        /\ Len(saved) = rows
        /\ \A row \in 1..rows :
               /\ Len(saved[row]) = cols
               /\ \A col \in 1..cols : saved[row][col] = <<row - 1, col - 1>>

C7_Witness ==
    pc = "close" /\ faults = 0 /\ rows = 5 /\ cols = 6 /\ Cardinality(DOMAIN files) = 30

\* C8: when tile (r, c) has been captured, the tiles captured and stored
\* before it are exactly those that precede it in row-major order.
C8_RowMajorOrder ==
    pc = "s_save" =>
        DOMAIN files = {slot \in GridSlots :
                            slot[1] < r \/ (slot[1] = r /\ slot[2] < c)}

C8_Witness ==
    pc = "s_save" /\ r = 2 /\ c = 1 /\ <<1, cols - 1>> \in DOMAIN files

\* C9: a composite is written only if every grid slot's tile was stored and
\* drawn, and a failed run writes none.
C9_NoPartialSuccess ==
    /\ output # NoOutput =>
           /\ Len(saved) = rows
           /\ Len(output.draws) = rows * cols
           /\ \A slot \in GridSlots :
                  \E k \in 1..Len(output.draws) :
                      /\ output.draws[k].dx = slot[2] * effectiveStepX
                      /\ output.draws[k].dy = slot[1] * effectiveStepY
    /\ fatalErr # "none" => output = NoOutput

\* the attempts of a capture call, without the delays
Attempts(log) == SelectSeq(log, LAMBDA e : e # "delay")
AllAttemptsFailed(log) ==
    /\ Len(Attempts(log)) = RETRY_ATTEMPTS
    /\ \A k \in 1..Len(log) : log[k] # "ok"
    /\ log[Len(log)] = "delay"

\* C10: a capture call makes at most RETRY_ATTEMPTS attempts, none after a
\* successful one, with a delay between consecutive attempts; it returns the
\* frame the canvas shows, and it throws exactly when all attempts failed.
C10_CaptureRetries ==
    /\ Len(Attempts(capLog)) <= RETRY_ATTEMPTS
    /\ \A k \in 1..Len(capLog) :
           /\ capLog[k] = "ok" => k = Len(capLog)
           /\ (k > 1 /\ capLog[k] # "delay") => capLog[k - 1] = "delay"
    /\ pc \in {"h_save", "v_save", "s_save"} =>
           (capLog # <<>> /\ capLog[Len(capLog)] = "ok" /\ buf = Rendered)
    /\ (pc = "fatal" /\ fatalErr = "CaptureError") => AllAttemptsFailed(capLog)
    /\ (pc = "h_pan" /\ dir = "left" /\ i = 0 /\ hErr = "CaptureError")
           => AllAttemptsFailed(capLog)
    /\ (pc = "v_pan" /\ dir = "up" /\ i = 0 /\ vErr = "CaptureError")
           => AllAttemptsFailed(capLog)
    /\ AllAttemptsFailed(capLog) =>
           (pc \notin CapturePcs /\ "CaptureError" \in {hErr, vErr, fatalErr})

C10_Witness ==
    pc = "s_save" /\ capLog = <<"fail", "delay", "fail", "delay", "ok">>

\* the step records `err` as newly thrown: caught by one of the two scan
\* try/catch blocks or by the top-level .catch
Thrown(err) ==
    \/ hErr = "none" /\ hErr' = err
    \/ vErr = "none" /\ vErr' = err
    \/ fatalErr = "none" /\ fatalErr' = err

\* C11 (as claimed): pan failures and capture failures alike are retried: an
\* error other than the iteration cap is thrown only after RETRY_ATTEMPTS
\* renderer calls have failed.
C11_FailuresRetried ==
    (\E e \in {hErr, vErr, fatalErr} : e \in {"PanError", "CaptureError"})
        => faults >= RETRY_ATTEMPTS

\* C11 (amended): only a failing capture attempt is retried: it throws nothing
\* and the capture call stays in its loop, and CaptureError is thrown only
\* after RETRY_ATTEMPTS failed attempts.  A failing drag is not retried: the
\* step in which it fails throws PanError.
C11_OnlyCapturesRetried ==
    [][/\ (faults' = faults + 1 /\ pc \in CapturePcs)
              => (pc' = pc /\ capWait' /\ UNCHANGED errVars)
       /\ (faults' = faults + 1 /\ pc \in PanPcs)
              => Thrown("PanError")
       /\ Thrown("CaptureError") => AllAttemptsFailed(capLog')
       /\ Thrown("PanError") => (faults' = faults + 1 /\ pc \in PanPcs)]_vars

C11_Witness ==
    fatalErr = "PanError" /\ faults = 1 /\ pc = "fatal"

\* C12: every edge scan makes at most 2000 pan-and-capture iterations, and a
\* scan that has made all 2000 without returning a result fails with
\* EdgeNotFoundError; EdgeNotFoundError is raised in no other case.
C12_ScanTerminates ==
    /\ pc \in HScanPcs \cup VScanPcs =>
           (i <= 2000 /\ (i = 2000 => pc \in {"h_pan", "v_pan"}))
    /\ \A n \in DOMAIN scanSaved : scanSaved[n] <= 2000
    /\ hErr = "EdgeNotFoundError" => scanSaved["h_right"] = 2000
    /\ vErr = "EdgeNotFoundError" => scanSaved["v_down"] = 2000
    /\ fatalErr = "EdgeNotFoundError" =>
           (scanSaved["h_left"] = 2000 \/ scanSaved["v_up"] = 2000)
    /\ (scanSaved["h_right"] = 2000 /\ ~(pc \in HScanPcs /\ dir = "right")) =>
           (hErr = "EdgeNotFoundError" \/ (hErr = "none" /\ horizMeta.steps = 2000))
    /\ (scanSaved["h_left"] = 2000 /\ pc \notin HScanPcs) =>
           (fatalErr = "EdgeNotFoundError" \/ horizMeta.steps = 2000)
    /\ (scanSaved["v_down"] = 2000 /\ ~(pc \in VScanPcs /\ dir = "down")) =>
           (vErr = "EdgeNotFoundError" \/ (vErr = "none" /\ vertMeta.steps = 2000))
    /\ (scanSaved["v_up"] = 2000 /\ pc \notin VScanPcs) =>
           (fatalErr = "EdgeNotFoundError" \/ vertMeta.steps = 2000)
    /\ horizMeta # NoMeta => horizMeta.steps <= 2000
    /\ vertMeta # NoMeta => vertMeta.steps <= 2000

C12_Witness ==
    /\ hErr = "EdgeNotFoundError" /\ fatalErr = "EdgeNotFoundError"
    /\ scanSaved["h_right"] = 2000 /\ scanSaved["h_left"] = 2000
    /\ gen = 4000

\* the last 4 fingerprints a scan compared, its baseline included, are one
\* value: 3 consecutive captures identical to their predecessor
RunComplete(hashes) ==
    /\ Len(hashes) = 4
    /\ \A k \in 1..4 : hashes[k] = hashes[1]

\* the result of a scan, against what the scan did
ResultMatches(meta, log) ==
    /\ RunComplete(log.hashes)
    /\ meta.steps = log.pans
    /\ meta.lastHash = log.hashes[Len(log.hashes)]

\* C13: a scan goes on as long as its last 3 captures have not all repeated
\* their predecessor, and returns at the iteration where they have: with the
\* number of drags it has issued and the fingerprint of the last capture.
C13_EdgeAtThreshold ==
    /\ pc \in HScanPcs => ~RunComplete(scanLog["h"].hashes)
    /\ pc \in VScanPcs => ~RunComplete(scanLog["v"].hashes)
    /\ horizMeta # NoMeta <=> (pc \notin HScanPcs \cup {"initial", "fatal"} \/
                                  (pc = "fatal" /\ RunComplete(scanLog["h"].hashes)))
    /\ horizMeta # NoMeta => ResultMatches(horizMeta, scanLog["h"])
    /\ vertMeta # NoMeta => ResultMatches(vertMeta, scanLog["v"])
    /\ (pc \in AfterRehomePcs \cup {"rehome_v", "rehome_h"}) => vertMeta # NoMeta

C13_Witness ==
    /\ pc = "rehome_v" /\ i = 0
    /\ horizMeta.steps = 5 /\ scanLog["h"].pans = 5
    /\ vertMeta.steps = 4 /\ scanLog["v"].pans = 4
    /\ vertMeta.lastHash = md5([x |-> world.maxX, y |-> world.maxY, gen |-> 0])
    /\ world.maxY > start[2]

\* C14: the composite is (columns - 1) * 960 + 1280 wide and
\* (rows - 1) * 600 + 800 high, 960 and 600 being round(1280 * 0.75) and
\* round(800 * 0.75), for the columns and rows the sweep has stored; a grid of
\* 3 columns and 2 rows gives 3200 by 1400.
C14_CompositeSize ==
    /\ effectiveStepX = 960 /\ effectiveStepY = 600
    /\ StitchedWidth(3) = 3200 /\ StitchedHeight(2) = 1400
    /\ output # NoOutput =>
           /\ output.width = (Len(saved[1]) - 1) * 960 + 1280
           /\ output.height = (Len(saved) - 1) * 600 + 800

C14_Witness ==
    /\ pc = "done"
    /\ Len(saved) = 5 /\ Len(saved[1]) = 6
    /\ output.width = 6080 /\ output.height = 3200

\* does the area 1280 by 800 at (column * 960, row * 600) of tile `slot`
\* cover the pixel (px, py) of the composite?
Covers(slot, px, py) ==
    /\ slot[2] * 960 <= px /\ px < slot[2] * 960 + 1280
    /\ slot[1] * 600 <= py /\ py < slot[1] * 600 + 800

\* a is before b in row-major order, or is b
RowMajorLeq(a, b) == a[1] < b[1] \/ (a[1] = b[1] /\ a[2] <= b[2])

\* four pixels of every tile's area: in its overlap with the tiles to the
\* left and above, with the tile to the left only, with the tile above only,
\* and outside both
SampleOffsets == {<<0, 0>>, <<0, 200>>, <<320, 0>>, <<320, 200>>}

\* the tiles whose area is sampled: all of them when the store is complete;
\* when a tile is missing, that tile and the tiles to its right and below,
\* whose overlaps it would have been drawn under or over
SampledSlots ==
    LET missing == GridSlots \ DOMAIN files
    IN  IF missing = {} THEN GridSlots
        ELSE {slot \in GridSlots :
                 \E m \in missing : /\ slot[1] - m[1] \in {0, 1}
                                    /\ slot[2] - m[2] \in {0, 1}}

\* C15: every pixel of the composite that a stored tile covers shows the
\* pixel of the covering tile that is last in row-major order, taken at the
\* tile's offset (column * 960, row * 600); a pixel no tile covers is blank.
C15_LastWriterWins ==
    output # NoOutput =>
        LET stored == GridSlots \cap DOMAIN files
        IN  \A slot \in SampledSlots, off \in SampleOffsets :
                LET px == slot[2] * 960 + off[1]
                    py == slot[1] * 600 + off[2]
                    tiles == {t \in stored : Covers(t, px, py)}
                IN  IF tiles = {} THEN PixelAt(output.draws, px, py) = Blank
                    ELSE LET top == CHOOSE t \in tiles :
                                        \A u \in tiles : RowMajorLeq(u, t)
                         IN  PixelAt(output.draws, px, py) =
                                 [img |-> files[top], x |-> px - top[2] * 960,
                                  y |-> py - top[1] * 600]

\* the pixel at (960, 600) lies in tiles (0,0), (0,1), (1,0) and (1,1), all
\* stored, and shows the top-left pixel of tile (1,1)
C15_Witness ==
    /\ output # NoOutput
    /\ {t \in DOMAIN files : Covers(t, 960, 600)} = {<<0, 0>>, <<0, 1>>, <<1, 0>>, <<1, 1>>}
    /\ PixelAt(output.draws, 960, 600) = [img |-> files[<<1, 1>>], x |-> 0, y |-> 0]

\* C16: the grid has horizontal stepsToEdge + 1 columns and vertical
\* stepsToEdge + 1 rows (4 and 2 give 5 and 3), and these dimensions are
\* those of the finished sweep (rows stored, tiles per row) and those the
\* stitcher sizes the composite and places the tiles for.
C16_GridDimensions ==
    /\ GridDimension(4) = 5 /\ GridDimension(2) = 3
    /\ pc \in {"close", "stitch", "done"} =>
           /\ Len(saved) = vertMeta.steps + 1
           /\ \A row \in 1..Len(saved) : Len(saved[row]) = horizMeta.steps + 1
    /\ output # NoOutput =>
           /\ output.width = horizMeta.steps * 960 + 1280
           /\ output.height = vertMeta.steps * 600 + 800
           /\ \A k \in 1..Len(output.draws) :
                  /\ output.draws[k].dx \in {col * 960 : col \in 0..horizMeta.steps}
                  /\ output.draws[k].dy \in {row * 600 : row \in 0..vertMeta.steps}

C16_Witness ==
    /\ pc = "done"
    /\ horizMeta.steps = 5 /\ vertMeta.steps = 4
    /\ Len(saved) = 5 /\ Len(saved[5]) = 6
    /\ Len(output.draws) = 30
    /\ output.draws[30].dx = 5 * 960 /\ output.draws[30].dy = 4 * 600

\* the phases in their order: horizontal scan (with the initial capture),
\* vertical scan, re-homing (with the corrective cycles), sweep, stitch
PhaseRank(p) ==
    IF p \in HScanPcs \cup {"initial"} THEN 1
    ELSE IF p \in VScanPcs THEN 2
    ELSE IF p \in {"rehome_v", "rehome_h"} \cup CorrectivePcs THEN 3
    ELSE IF p \in {"s_capture", "s_save", "s_pan", "s_return", "s_down"} THEN 4
    ELSE IF p \in {"close", "stitch", "done"} THEN 5
    ELSE 6

\* the step makes a drag / a capture attempt
Dragged == panSum' # panSum
Captured == Len(capLog') = Len(capLog) + 1 /\ capLog'[Len(capLog')] # "delay"

\* C17: the flow never goes back to an earlier phase, a phase starts only
\* when the one before it has produced its result, every step makes at most
\* one renderer call (a drag or a capture attempt, each awaited before the
\* next), and none is made once the sweep is over.
C17_PhaseOrdered ==
    [][/\ pc' # "fatal" => PhaseRank(pc) <= PhaseRank(pc')
       /\ PhaseRank(pc') \in 2..5 => horizMeta' # NoMeta
       /\ PhaseRank(pc') \in 3..5 => vertMeta' # NoMeta
       /\ PhaseRank(pc') = 4 =>
              (panSum'["rehome"] # <<0, 0>> /\ panSum'["corrective"] = <<0, 0>>)
       /\ PhaseRank(pc') = 5 => Len(saved') = rows'
       /\ ~(Dragged /\ Captured)
       /\ Dragged => (pc \in PanPcs /\ PhaseRank(pc) <= 4)
       /\ Captured => (pc \in CapturePcs /\ PhaseRank(pc) <= 4)
       /\ (pos' # pos \/ gen' # gen) => Dragged
       /\ buf' # buf => Captured]_vars

C17_Witness ==
    /\ pc = "done"
    /\ panSum["scan"] = <<-5 * stepX, -4 * stepY>>
    /\ panSum["rehome"] = <<5 * stepX, 4 * stepY>>
    /\ panSum["sweep"] = <<0, -4 * stepY>>
    /\ Len(output.draws) = 30

\* the slots whose tile the sweep has captured when it is about to drag:
\* up to (r, c) before the drag to the next column, the whole of the rows
\* up to r before the drags back to the first column and down
CapturedSoFar ==
    {slot \in GridSlots :
        \/ slot[1] < r
        \/ slot[1] = r /\ (pc # "s_pan" \/ slot[2] <= c)}

\* the slot of the tile captured last
LastCaptured == IF pc = "s_pan" THEN <<r, c>> ELSE <<r, cols - 1>>

ScanFileNames ==
    UNION {{ScanFileName(n, k) : k \in 0..(scanSaved[n] - 1)} : n \in DOMAIN scanSaved}

\* the paths the stitcher will read: the entries of `saved`
StitchReads == UNION {{saved[row][col] : col \in 1..Len(saved[row])} : row \in 1..Len(saved)}

\* C19: every iteration of a scan has saved its capture under a name of its
\* own (axis, direction, iteration), no such name is the name of a tile, and
\* the names the stitcher reads are exactly the tile names of the grid.
C19_ScanKeysApart ==
    /\ pc \in {"h_pan", "v_pan"} =>
           scanSaved[ScanFilePrefix(AxisOf(dir), dir)] = scanLog[AxisOf(dir)].pans
    /\ pc = "close" =>
           LET scanNames == ScanFileNames
               readNames == {TileFileName(path) : path \in StitchReads}
           IN  /\ Cardinality(scanNames) =
                      scanSaved["h_right"] + scanSaved["h_left"]
                          + scanSaved["v_down"] + scanSaved["v_up"]
               /\ scanNames \cap readNames = {}
               /\ StitchReads = GridSlots
               /\ Cardinality(readNames) = rows * cols
               /\ \A path \in GridSlots : TileFileName(path) \notin scanNames

C19_Witness ==
    /\ pc = "close"
    /\ scanSaved = [h_right |-> 2000, h_left |-> 5, v_down |-> 4, v_up |-> 0]
    /\ "h_left_4.png" \in ScanFileNames
    /\ TileFileName(saved[4][6]) = "tile_r3_c5.png"

\* the expired entries whose players can be extracted (no name that is not
\* a string among the players of world "world")
Extractable == SelectSeq(expired, LAMBDA value : ~ExtractThrows(value.json))

\* C20: for every raw cache entry that has expired, and whose JSON can be
\* extracted, exactly one file was saved, in the order of the expiries, and
\* its content is the list of the players of world "world" extracted from
\* that entry's own JSON.
C20_SavesOwnPlayers ==
    /\ Len(saves) = Len(Extractable)
    /\ \A k \in 1..Len(saves) :
           saves[k].data =
               extractPlayers(Extractable[k].json.players, Extractable[k].capturedAt)

\* C21: when tile (r, c) is captured and stored, the drags issued since the
\* sweep started sum to c steps of 960 to the left (the view c steps to the
\* right) and r steps of 600 up (the view r steps down); a row's forward
\* drags are columns - 1, its reverse drags bring the sum back to 0 along the
\* row axis, and one drag along the column axis follows every row but the
\* last.
C21_SweepDisplacement ==
    /\ pc \in {"s_capture", "s_save"} => panSum["sweep"] = <<-c * 960, -r * 600>>
    /\ pc = "s_pan" => panSum["sweep"] = <<-c * 960, -r * 600>>
    /\ pc = "s_return" =>
           (c <= cols - 1 /\ panSum["sweep"] = <<-(cols - 1 - c) * 960, -r * 600>>)
    /\ pc = "s_down" => (r < rows - 1 /\ panSum["sweep"] = <<0, -r * 600>>)
    /\ pc \in {"close", "stitch", "done"} => panSum["sweep"] = <<0, -(rows - 1) * 600>>

C21_Witness ==
    /\ pc = "s_capture" /\ r = 2 /\ c = 3
    /\ panSum["sweep"] = <<-2880, -1200>>
    /\ Cardinality(DOMAIN files) = 2 * cols + 3

\* the TTL of a cached response has elapsed
TtlElapsed(value) == now > value.capturedAt + RAW_CACHE_TTL * 1000

\* C22: from some point on, every response that was cached (and whose JSON
\* can be extracted) and whose 60 s have elapsed has expired from the cache
\* as itself, which is when its file is saved - also a response that a later
\* response with the same URL has followed within the 60 s.
C22_EveryResponseSaved ==
    <>[](\A k \in 1..Len(cachedValues) :
             (~ExtractThrows(cachedValues[k].json) /\ TtlElapsed(cachedValues[k]))
                 => \E j \in 1..Len(expired) : expired[j] = cachedValues[k])

\* the parsed entries with the town name of final[k], whatever the case
Duplicates(k) ==
    SelectSeq(entries, LAMBDA e : toLowerCase(e.town) = toLowerCase(final[k].town))

\* the first value of a field among the duplicates that is not null, or null
RECURSIVE FirstValue(_, _)
FirstValue(values, null) ==
    IF values = <<>> THEN null
    ELSE IF ~Head(values).isNull THEN Head(values)
    ELSE FirstValue(Tail(values), null)

\* C23: towns.json holds one entry per town name of the parsed entries,
\* compared without case, under the spelling of the first occurrence; each of
\* nation, bank and upkeep is the first value the duplicates give for it,
\* and is null only if no duplicate gives one.
C23_DedupeKeepsFirst ==
    written =>
        /\ {toLowerCase(final[k].town) : k \in 1..Len(final)}
               = {toLowerCase(entries[k].town) : k \in 1..Len(entries)}
        /\ \A j, k \in 1..Len(final) :
               toLowerCase(final[j].town) = toLowerCase(final[k].town) => j = k
        /\ \A k \in 1..Len(final) :
               LET dups == Duplicates(k)
               IN  /\ final[k].town = dups[1].town
                   /\ final[k].nation =
                          FirstValue([d \in 1..Len(dups) |-> dups[d].nation], NullString)
                   /\ final[k].bank =
                          FirstValue([d \in 1..Len(dups) |-> dups[d].bank], NullNumber)
                   /\ final[k].upkeep =
                          FirstValue([d \in 1..Len(dups) |-> dups[d].upkeep], NullNumber)

----------------------------------------------------------------------------
\* C24: when an edge scan starts (no drag of the scan issued yet) the
\* baseline fingerprint of its first comparison is the fingerprint of the
\* frame the viewport shows at that moment, and after every iteration the
\* stored last fingerprint is the fingerprint of the frame that iteration
\* captured.
ScanAtLoopHead == pc \in {"h_pan", "v_pan"}

C24_BaselineIsShownFrame ==
    ScanAtLoopHead =>
        LET log == scanLog[AxisOf(dir)]
        IN  IF log.pans = 0
            THEN lastHash = md5(Rendered)
            ELSE lastHash = log.hashes[Len(log.hashes)]

----------------------------------------------------------------------------
\* C25: an edge scan that returns reports at least MAX_IDENTICAL_TO_EDGE (3)
\* steps, never 0, so the grid derived from the two results has at least 4
\* columns and 4 rows, also when the whole content fits in one viewport.
C25_AtLeastThreeSteps ==
    /\ horizMeta # NoMeta =>
           /\ horizMeta.steps >= MAX_IDENTICAL_TO_EDGE
           /\ GridDimension(horizMeta.steps) >= 4
    /\ vertMeta # NoMeta =>
           /\ vertMeta.steps >= MAX_IDENTICAL_TO_EDGE
           /\ GridDimension(vertMeta.steps) >= 4
    /\ pc \in {"close", "stitch", "done"} =>
           /\ Len(saved) >= 4
           /\ \A row \in 1..Len(saved) : Len(saved[row]) >= 4

\* content that fits in a single viewport is scanned and swept as a 4 x 4 grid
C25_Witness ==
    /\ pc = "done"
    /\ world.maxX = 0 /\ world.maxY = 0 /\ world.restless = {}
    /\ horizMeta.steps = 3 /\ vertMeta.steps = 3
    /\ Len(saved) = 4 /\ Len(saved[1]) = 4
    /\ output.width = 3 * 960 + 1280 /\ output.height = 3 * 600 + 800

====
